---- MODULE Spec2Model ----
(***************************************************************************)
(* rusty-markov: tokenizer (tokenize.rs), transition counting (train.rs,   *)
(* transitions.rs), the iterator-shaped generator (generator.rs) and the   *)
(* one-shot generator (babble.rs).                                         *)
(*                                                                         *)
(* A String is a sequence of chars; a char is named by a TLA+ string.      *)
(* Vec indices are 1-based here and 0-based in the source.                 *)
(***************************************************************************)
EXTENDS Integers, Sequences, FiniteSets, TLC

VARIABLES
    boundary_config,    \* the BoundaryConfigs value handed to the run
    \* ---- tokenize (tokenize.rs) ----
    tk_line,            \* the line being tokenized
    tk_tokens,          \* the Vec<Token> the passes rewrite in place
    tk_before,          \* that vector as it was before the last pass
    tk_pc,              \* position inside tokenize
    \* ---- train_with_stream (train.rs) ----
    transitions,        \* Transitions.transitions
    last_token,         \* the carried token of train_with_stream
    lines,              \* history: the line results read from the input so far
    passed,             \* history: the vectors handed to train_with_tokens so far
    \* ---- MarkovGenerator (generator.rs) ----
    token_transitions,  \* MarkovGenerator.token_transitions
    gen_last_token,     \* MarkovGenerator.last_token
    trained,            \* history: the lines given to MarkovGenerator::train
    results,            \* history: what each call of next returned
    \* ---- generate_text (babble.rs) ----
    probability,        \* the probability map argument
    limit,              \* the limit argument
    output,             \* the output vector
    bab_last_token,     \* the local last_token
    bab_i,              \* iterations of the for loop done
    bab_pc              \* position inside generate_text

tokVars == <<tk_line, tk_tokens, tk_before, tk_pc>>
trainVars == <<transitions, last_token, lines, passed>>
genVars == <<token_transitions, gen_last_token, trained, results>>
babVars == <<probability, limit, output, bab_last_token, bab_i, bab_pc>>
vars == <<boundary_config, tokVars, trainVars, genVars, babVars>>

(***************************************************************************)
(* Bounds of the model                                                     *)
(***************************************************************************)
MaxLineLen == 4     \* chars of a line given to tokenize
MaxLines == 3       \* lines of a training stream
MaxTrainCalls == 2  \* calls of MarkovGenerator::train before generation
MaxCalls == 4       \* calls of MarkovGenerator::next
MaxLimit == 2       \* the limit argument of generate_text

(***************************************************************************)
(* Tokens                                                                  *)
(***************************************************************************)
Boundary == [kind |-> "Boundary", value |-> <<>>]
Word(s) == [kind |-> "Token", value |-> s]
IsWord(t) == t.kind = "Token"
None == [kind |-> "None", value |-> <<>>]
Some(t) == t

LineEndings == "LineEndings"
SentenceEndings == "SentenceEndings"
BoundaryConfigs == {LineEndings, SentenceEndings}

SENTENCE_ENDINGS == {".", "!", "?"}
PUNCTUATION_ENDINGS == {".", "!", "?", ",", "\"", "'", "}", ")"}
PUNCTUATION_BEGININGS == {"\"", "'", "{", "("}

\* chars that char::is_whitespace accepts
Whitespace == {" "}
\* chars whose UTF-8 encoding takes two bytes (U+00E9 is e with acute accent)
TwoByteChars == {"U+00E9"}

Min(a, b) == IF a < b THEN a ELSE b

\* String::len: the length in bytes, not in chars
RECURSIVE StrLen(_)
StrLen(s) ==
    IF s = <<>> THEN 0
    ELSE (IF Head(s) \in TwoByteChars THEN 2 ELSE 1) + StrLen(Tail(s))

\* value.chars().take(n).collect()
CharsTake(value, n) == SubSeq(value, 1, Min(n, Len(value)))

(***************************************************************************)
(* tokenize.rs                                                             *)
(***************************************************************************)
\* line.split_whitespace().map(|s| Token::from(s)).collect()
RECURSIVE SplitLoop(_, _, _)
SplitLoop(rest, cur, acc) ==
    IF rest = <<>> THEN (IF cur = <<>> THEN acc ELSE Append(acc, Word(cur)))
    ELSE IF Head(rest) \in Whitespace
         THEN SplitLoop(Tail(rest), <<>>, IF cur = <<>> THEN acc ELSE Append(acc, Word(cur)))
         ELSE SplitLoop(Tail(rest), Append(cur, Head(rest)), acc)

split_whitespace(line) == SplitLoop(line, <<>>, <<>>)

\* Vec::remove(i) and Vec::insert(i, x)
VecRemove(v, i) == SubSeq(v, 1, i - 1) \o SubSeq(v, i + 1, Len(v))
VecInsert(v, i, x) == SubSeq(v, 1, i - 1) \o <<x>> \o SubSeq(v, i, Len(v))

\* for (j, new_token) in new_tokens.into_iter().enumerate() { tokens.insert(i + j, new_token) }
RECURSIVE InsertEach(_, _, _, _)
InsertEach(v, i, new_tokens, j) ==
    IF j > Len(new_tokens) THEN v
    ELSE InsertEach(VecInsert(v, i + j - 1, new_tokens[j]), i, new_tokens, j + 1)

\* the same loop without .rev(): the insertions applied in index order
RECURSIVE ApplyInsertionsForward(_, _)
ApplyInsertionsForward(v, insertions) ==
    IF insertions = <<>> THEN v
    ELSE LET i == insertions[1][1]
             new_tokens == insertions[1][2]
         IN ApplyInsertionsForward(InsertEach(VecRemove(v, i), i, new_tokens, 1),
                                   Tail(insertions))

\* for (i, new_tokens) in insertions.into_iter().rev() { tokens.remove(i); ... }
RECURSIVE ApplyInsertions(_, _)
ApplyInsertions(v, insertions) ==
    IF insertions = <<>> THEN v
    ELSE LET n == Len(insertions)
             i == insertions[n][1]
             new_tokens == insertions[n][2]
         IN ApplyInsertions(InsertEach(VecRemove(v, i), i, new_tokens, 1),
                            SubSeq(insertions, 1, n - 1))

\* tokens.iter().enumerate(): the indices whose token passes the test, in order
Indices(v) == [i \in 1..Len(v) |-> i]

LastChar(value) == value[Len(value)]

\* the test of split_out_sentence_boundaries on one token
SentenceMatches(t) ==
    /\ IsWord(t)
    /\ t.value # <<>>
    /\ LastChar(t.value) \in SENTENCE_ENDINGS

\* its replacement: the trimmed value when value.len() > 1, then Boundary
SentenceNewTokens(t) ==
    (IF StrLen(t.value) > 1
     THEN <<Word(CharsTake(t.value, StrLen(t.value) - 1))>>
     ELSE <<>>) \o <<Boundary>>

\* the (index, replacement) pairs the first loop collects
SentenceInsertions(v) ==
    LET idx == SelectSeq(Indices(v), LAMBDA i : SentenceMatches(v[i]))
    IN [k \in 1..Len(idx) |-> <<idx[k], SentenceNewTokens(v[idx[k]])>>]

split_out_sentence_boundaries(v) == ApplyInsertions(v, SentenceInsertions(v))

EndingMatches(t) ==
    /\ IsWord(t)
    /\ t.value # <<>>
    /\ LastChar(t.value) \in PUNCTUATION_ENDINGS

\* the replacement without the value.len() > 1 test
EndingNewTokensUnguarded(t) ==
    <<Word(CharsTake(t.value, StrLen(t.value) - 1)), Word(<<LastChar(t.value)>>)>>

EndingNewTokens(t) ==
    (IF StrLen(t.value) > 1
     THEN <<Word(CharsTake(t.value, StrLen(t.value) - 1))>>
     ELSE <<>>) \o <<Word(<<LastChar(t.value)>>)>>

EndingInsertions(v) ==
    LET idx == SelectSeq(Indices(v), LAMBDA i : EndingMatches(v[i]))
    IN [k \in 1..Len(idx) |-> <<idx[k], EndingNewTokens(v[idx[k]])>>]

split_out_punctuation_endings(v) == ApplyInsertions(v, EndingInsertions(v))

BeginingMatches(t) ==
    /\ IsWord(t)
    /\ t.value # <<>>
    /\ Head(t.value) \in PUNCTUATION_BEGININGS

BeginingNewTokens(t) ==
    <<Word(<<Head(t.value)>>)>>
    \o (IF StrLen(t.value) > 1 THEN <<Word(Tail(t.value))>> ELSE <<>>)

BeginingInsertions(v) ==
    LET idx == SelectSeq(Indices(v), LAMBDA i : BeginingMatches(v[i]))
    IN [k \in 1..Len(idx) |-> <<idx[k], BeginingNewTokens(v[idx[k]])>>]

split_out_punctuation_beginings(v) == ApplyInsertions(v, BeginingInsertions(v))

\* tokenize with the sentence pass run under either config
tokenize_any_config(line, config) ==
    split_out_punctuation_beginings(
        split_out_punctuation_endings(
            split_out_sentence_boundaries(split_whitespace(line))))

tokenize(line, config) ==
    LET t0 == split_whitespace(line)
        t1 == IF config = SentenceEndings THEN split_out_sentence_boundaries(t0) ELSE t0
        t2 == split_out_punctuation_endings(t1)
    IN split_out_punctuation_beginings(t2)

(***************************************************************************)
(* transitions.rs and train.rs                                             *)
(***************************************************************************)
EmptyMap == [x \in {} |-> 0]

\* a line result of input.lines(): Ok(line) or Err(e)
Ok(line) == [ok |-> TRUE, line |-> line]
Err == [ok |-> FALSE, line |-> <<>>]

\* Transitions::count_transition with a plain insert of 1 in place of the entry API
count_transition_insert(tr, last, next) ==
    LET token_trans == IF last \in DOMAIN tr THEN tr[last] ELSE EmptyMap
        counted == [x \in DOMAIN token_trans \cup {next} |->
                        IF x = next THEN 1 ELSE token_trans[x]]
    IN [x \in DOMAIN tr \cup {last} |-> IF x = last THEN counted ELSE tr[x]]

\* Transitions::count_transition
count_transition(tr, last, next) ==
    LET token_trans == IF last \in DOMAIN tr THEN tr[last] ELSE EmptyMap
        counted == [x \in DOMAIN token_trans \cup {next} |->
                        IF x = next
                        THEN (IF next \in DOMAIN token_trans THEN token_trans[next] + 1 ELSE 1)
                        ELSE token_trans[x]]
    IN [x \in DOMAIN tr \cup {last} |-> IF x = last THEN counted ELSE tr[x]]

\* the for loop of train_with_tokens
RECURSIVE TokensLoop(_, _, _)
TokensLoop(last, rest, tr) ==
    IF rest = <<>> THEN tr
    ELSE LET next == Head(rest)
         IN TokensLoop(next, Tail(rest),
                       IF last = Boundary /\ next = Boundary
                       THEN tr
                       ELSE count_transition(tr, last, next))

\* train_with_tokens without the (Boundary, Boundary) arm of the match
RECURSIVE TokensLoopAll(_, _, _)
TokensLoopAll(last, rest, tr) ==
    IF rest = <<>> THEN tr
    ELSE TokensLoopAll(Head(rest), Tail(rest), count_transition(tr, last, Head(rest)))

train_with_tokens_all(toks, tr) ==
    IF toks = <<>> THEN tr ELSE TokensLoopAll(Head(toks), Tail(toks), tr)

train_with_tokens(toks, tr) ==
    IF toks = <<>> THEN tr ELSE TokensLoop(Head(toks), Tail(toks), tr)

\* that vector without the closing push of train.rs:55-57
LineTokensNoClosing(res, config, last) ==
    <<IF config = LineEndings THEN Boundary ELSE last>>
    \o (IF res.ok THEN tokenize(res.line, config) ELSE <<>>)

\* the vector `tokens` that one iteration of train_with_stream builds (train.rs:24-57)
LineTokens(res, config, last) ==
    <<IF config = LineEndings THEN Boundary ELSE last>>
    \o (IF res.ok THEN tokenize(res.line, config) ELSE <<>>)
    \o (IF config = LineEndings THEN <<Boundary>> ELSE <<>>)

\* last_token saved from the tokenized part only, Boundary when it is empty
SavedLastTokenOfLine(res, config, last) ==
    IF res.ok /\ config = SentenceEndings
    THEN LET t == tokenize(res.line, config)
         IN IF Len(t) > 0 THEN t[Len(t)] ELSE Boundary
    ELSE last

\* last_token reset to Boundary in the Err arm
SavedLastTokenErrResets(res, config, last) ==
    IF ~res.ok THEN Boundary
    ELSE IF config = SentenceEndings
    THEN LET t == <<last>> \o tokenize(res.line, config)
         IN IF Len(t) > 0 THEN t[Len(t)] ELSE last
    ELSE last

\* last_token after one iteration (train.rs:38-46)
SavedLastToken(res, config, last) ==
    IF res.ok /\ config = SentenceEndings
    THEN LET t == <<last>> \o tokenize(res.line, config)
         IN IF Len(t) > 0 THEN t[Len(t)] ELSE last
    ELSE last

\* the for loop of train_with_stream over a whole input
RECURSIVE StreamLoop(_, _, _, _)
StreamLoop(input, tr, last, config) ==
    IF input = <<>> THEN tr
    ELSE StreamLoop(Tail(input),
                    train_with_tokens(LineTokens(Head(input), config, last), tr),
                    SavedLastToken(Head(input), config, last),
                    config)

train_with_stream(input, tr, config) == StreamLoop(input, tr, Boundary, config)

(***************************************************************************)
(* generator.rs                                                            *)
(*                                                                         *)
(* MarkovGenerator::train hands token_transitions to train_with_stream, so *)
(* the generator is modelled on the Token-keyed table that train.rs        *)
(* builds: a key of the table is a Word or Boundary, and next returns the  *)
(* key it picked.                                                          *)
(***************************************************************************)
\* WeightedIndex::new(counts) is Ok: some weight, and not all of them zero
WeightedIndexOk(trans_map) ==
    /\ DOMAIN trans_map # {}
    /\ \E k \in DOMAIN trans_map : trans_map[k] > 0

\* tokens[dist.sample(rng)]: an index is drawn with probability proportional
\* to its weight, so every token of non-zero weight can be drawn and no other
Sample(trans_map) == {k \in DOMAIN trans_map : trans_map[k] > 0}

\* pick_first_token that starts from Boundary when there is no key to choose
pick_first_token_or_boundary(tr) ==
    IF DOMAIN tr = {} THEN {Some(Boundary)} ELSE {Some(k) : k \in DOMAIN tr}

\* MarkovGenerator::pick_first_token: the values keys().choose(rng) can return
pick_first_token(tr) ==
    IF DOMAIN tr = {} THEN {None} ELSE {Some(k) : k \in DOMAIN tr}

\* pick_next_token that chooses among the keys of the table again
pick_next_token_any(tr, last) ==
    IF last = None THEN {None}
    ELSE IF last \notin DOMAIN tr THEN {None}
    ELSE {Some(k) : k \in DOMAIN tr}

\* MarkovGenerator::pick_next_token: the values it can return
pick_next_token(tr, last) ==
    IF last = None THEN {None}
    ELSE IF last \notin DOMAIN tr THEN {None}
    ELSE IF ~WeightedIndexOk(tr[last]) THEN {None}
    ELSE {Some(k) : k \in Sample(tr[last])}

\* MarkovGenerator::next: the values last_token can take, which it returns
next(tr, last) ==
    IF last = None THEN pick_first_token(tr) ELSE pick_next_token(tr, last)

(***************************************************************************)
(* Values of the variables of a component that is not running              *)
(***************************************************************************)
TokIdle ==
    /\ tk_line = <<>>
    /\ tk_tokens = <<>>
    /\ tk_before = <<>>
    /\ tk_pc = "idle"

TrainIdle ==
    /\ transitions = EmptyMap
    /\ last_token = Boundary
    /\ lines = <<>>
    /\ passed = <<>>

GenIdle ==
    /\ token_transitions = EmptyMap
    /\ gen_last_token = None
    /\ trained = <<>>
    /\ results = <<>>

BabIdle ==
    /\ probability = EmptyMap
    /\ limit = 0
    /\ output = <<>>
    /\ bab_last_token = None
    /\ bab_i = 0
    /\ bab_pc = "idle"

(***************************************************************************)
(* tokenize, pass by pass, on every line of at most MaxLineLen chars       *)
(***************************************************************************)
TokAlphabet == {"a", " ", ".", "(", ")", "\"", "U+00E9"}
TokLines == UNION {[1..n -> TokAlphabet] : n \in 0..MaxLineLen}

TokInit ==
    /\ boundary_config \in BoundaryConfigs
    /\ tk_line \in TokLines
    /\ tk_tokens = <<>>
    /\ tk_before = <<>>
    /\ tk_pc = "split_whitespace"
    /\ TrainIdle /\ GenIdle /\ BabIdle

\* tokenize.rs:17
SplitWhitespace ==
    /\ tk_pc = "split_whitespace"
    /\ tk_before' = tk_tokens
    /\ tk_tokens' = split_whitespace(tk_line)
    /\ tk_pc' = IF boundary_config = SentenceEndings
                THEN "split_out_sentence_boundaries"
                ELSE "split_out_punctuation_endings"
    /\ UNCHANGED <<boundary_config, tk_line, trainVars, genVars, babVars>>

\* tokenize.rs:18-20
SentenceBoundaries ==
    /\ tk_pc = "split_out_sentence_boundaries"
    /\ tk_before' = tk_tokens
    /\ tk_tokens' = split_out_sentence_boundaries(tk_tokens)
    /\ tk_pc' = "split_out_punctuation_endings"
    /\ UNCHANGED <<boundary_config, tk_line, trainVars, genVars, babVars>>

\* tokenize.rs:21
PunctuationEndings ==
    /\ tk_pc = "split_out_punctuation_endings"
    /\ tk_before' = tk_tokens
    /\ tk_tokens' = split_out_punctuation_endings(tk_tokens)
    /\ tk_pc' = "split_out_punctuation_beginings"
    /\ UNCHANGED <<boundary_config, tk_line, trainVars, genVars, babVars>>

\* tokenize.rs:22-24
PunctuationBeginings ==
    /\ tk_pc = "split_out_punctuation_beginings"
    /\ tk_before' = tk_tokens
    /\ tk_tokens' = split_out_punctuation_beginings(tk_tokens)
    /\ tk_pc' = "return"
    /\ UNCHANGED <<boundary_config, tk_line, trainVars, genVars, babVars>>

TokNext ==
    \/ SplitWhitespace
    \/ SentenceBoundaries
    \/ PunctuationEndings
    \/ PunctuationBeginings

SpecTok == TokInit /\ [][TokNext]_vars

\* the state right after split_out_sentence_boundaries has run
AfterSentenceBoundaries ==
    /\ boundary_config = SentenceEndings
    /\ tk_pc = "split_out_punctuation_endings"

RECURSIVE Flatten(_)
Flatten(ss) == IF ss = <<>> THEN <<>> ELSE Head(ss) \o Flatten(Tail(ss))

\* what C10 says one token becomes
C10_Replacement(t) ==
    IF IsWord(t) /\ t.value # <<>> /\ LastChar(t.value) \in SENTENCE_ENDINGS
    THEN (IF Len(t.value) > 1
          THEN <<Word(SubSeq(t.value, 1, Len(t.value) - 1))>>
          ELSE <<>>) \o <<Boundary>>
    ELSE <<t>>

\* C10: split_out_sentence_boundaries replaces every token ending in '.', '!'
\* or '?' by its text without that one char (nothing when nothing remains)
\* followed by one Boundary, and leaves every other token unchanged, for every
\* token text, multi-byte chars included.
C10_SentenceSplit ==
    AfterSentenceBoundaries =>
        tk_tokens = Flatten([i \in 1..Len(tk_before) |-> C10_Replacement(tk_before[i])])

\* the same statement for the tokens whose chars all take one byte
C10_SentenceSplitAscii ==
    (AfterSentenceBoundaries /\ \A i \in 1..Len(tk_line) : tk_line[i] \notin TwoByteChars) =>
        tk_tokens = Flatten([i \in 1..Len(tk_before) |-> C10_Replacement(tk_before[i])])

(***************************************************************************)
(* train_with_stream, one iteration of its for loop per step, on streams   *)
(* of at most MaxLines lines                                               *)
(***************************************************************************)
\* the lines a stream is made of; Err is a line whose read fails
Corpus ==
    { <<>>,
      <<" ">>,
      <<"a">>,
      <<"b">>,
      <<"a", " ", "b">>,
      <<"b", " ", "a">>,
      <<"a", " ", "a">>,
      <<"a", ".">>,
      <<".">>,
      <<".", " ", ".">>,
      <<"a", ".", " ", "b">> }
LineResults == {Ok(l) : l \in Corpus} \cup {Err}

TrainInit ==
    /\ boundary_config \in BoundaryConfigs
    /\ transitions = EmptyMap
    /\ last_token = Boundary
    /\ lines = <<>>
    /\ passed = <<>>
    /\ TokIdle /\ GenIdle /\ BabIdle

\* train.rs:23-59: one iteration of `for line_res in input.lines()`
ReadLine(res) ==
    /\ Len(lines) < MaxLines
    /\ LET toks == LineTokens(res, boundary_config, last_token)
       IN /\ transitions' = train_with_tokens(toks, transitions)
          /\ passed' = Append(passed, toks)
    /\ last_token' = SavedLastToken(res, boundary_config, last_token)
    /\ lines' = Append(lines, res)
    /\ UNCHANGED <<boundary_config, tokVars, genVars, babVars>>

TrainNext == \E res \in LineResults : ReadLine(res)

SpecTrain == TrainInit /\ [][TrainNext]_vars

\* the stored count of (a, b), 0 when there is no entry
Count(tr, a, b) == IF a \in DOMAIN tr /\ b \in DOMAIN tr[a] THEN tr[a][b] ELSE 0

\* how often a is immediately followed by b in one vector
PairCount(v, a, b) == Cardinality({i \in 1..(Len(v) - 1) : v[i] = a /\ v[i + 1] = b})

\* ... and in all the vectors handed to train_with_tokens so far
RECURSIVE Sum(_, _)
Sum(f, S) == IF S = {} THEN 0 ELSE LET x == CHOOSE y \in S : TRUE IN f[x] + Sum(f, S \ {x})

Observed(a, b) == Sum([i \in 1..Len(passed) |-> PairCount(passed[i], a, b)], 1..Len(passed))

\* every token handed to train_with_tokens so far
SeenTokens == UNION {{passed[i][k] : k \in 1..Len(passed[i])} : i \in 1..Len(passed)}

\* the tokens of the i-th line read: none for an unreadable line
Toks(i) == IF lines[i].ok THEN tokenize(lines[i].line, boundary_config) ELSE <<>>

IsBlank(res) == res.ok /\ \A k \in 1..Len(res.line) : res.line[k] \in Whitespace

\* C2: the table never holds an entry whose source and destination are both
\* Boundary, whatever lines were read and under either BoundaryConfig.
C2_NoBoundaryToBoundary ==
    Count(transitions, Boundary, Boundary) = 0
    /\ (Boundary \in DOMAIN transitions => Boundary \notin DOMAIN transitions[Boundary])

\* two consecutive blank lines and then an unreadable line or a line of only
\* sentence-ending punctuation were read, and Boundary is a known source
C2_Witness ==
    /\ \E i \in 1..(Len(lines) - 1) : IsBlank(lines[i]) /\ IsBlank(lines[i + 1])
    /\ \E i \in 1..Len(lines) : ~lines[i].ok \/ lines[i].line = <<".">>
    /\ \E i \in 1..Len(passed) : PairCount(passed[i], Boundary, Boundary) > 0
    /\ Boundary \in DOMAIN transitions

\* C3: for every pair (a, b) other than (Boundary, Boundary) the stored count
\* is the number of times a was immediately followed by b in the vectors
\* handed to train_with_tokens; a pair never seen has no entry and no stored
\* count is 0.
C3_CountsAreObservations ==
    /\ \A a \in DOMAIN transitions : \A b \in DOMAIN transitions[a] :
          /\ transitions[a][b] >= 1
          /\ transitions[a][b] = Observed(a, b)
    /\ \A a \in SeenTokens : \A b \in SeenTokens :
          (a # Boundary \/ b # Boundary) => Count(transitions, a, b) = Observed(a, b)

\* some pair was seen more than once and some pair of seen tokens never
C3_Witness ==
    /\ \E a \in SeenTokens : \E b \in SeenTokens : Observed(a, b) >= 2 /\ Count(transitions, a, b) >= 2
    /\ \E a \in SeenTokens : \E b \in SeenTokens : Observed(a, b) = 0 /\ a \in DOMAIN transitions

\* the i-th line read yields tokens
Yields(i) == Toks(i) # <<>>

\* the last token of the latest line before the i-th that yields tokens,
\* Boundary when there is none
RECURSIVE CarryBefore(_)
CarryBefore(i) ==
    IF i <= 1 THEN Boundary
    ELSE IF Yields(i - 1) THEN Toks(i - 1)[Len(Toks(i - 1))]
    ELSE CarryBefore(i - 1)

\* some line before the i-th yields tokens
HasEarlier(i) == \E j \in 1..(i - 1) : Yields(j)

\* C4 as stated: under SentenceEndings the carried token starts as Boundary and
\* is the last token of the latest line that yields tokens; every line that
\* yields tokens is counted as that token directly followed by the line's
\* tokens, and for two such lines read one after the other the transition from
\* the last token of the earlier to the first token of the later is counted.
C4_CarryAlwaysCounted ==
    boundary_config = SentenceEndings =>
        /\ last_token = CarryBefore(Len(lines) + 1)
        /\ \A i \in 1..Len(lines) : Yields(i) =>
              /\ passed[i] = <<CarryBefore(i)>> \o Toks(i)
              /\ HasEarlier(i) =>
                    /\ Count(transitions, CarryBefore(i), Toks(i)[1]) >= 1
                    /\ Count(transitions, CarryBefore(i), Toks(i)[1])
                          = Observed(CarryBefore(i), Toks(i)[1])

\* C4 (amended): the same, except that no transition is counted when the last
\* token of the earlier line and the first token of the later line are both
\* Boundary.
C4_CarryCounted ==
    boundary_config = SentenceEndings =>
        /\ last_token = CarryBefore(Len(lines) + 1)
        /\ \A i \in 1..Len(lines) : Yields(i) =>
              /\ passed[i] = <<CarryBefore(i)>> \o Toks(i)
              /\ HasEarlier(i) =>
                    IF CarryBefore(i) = Boundary /\ Toks(i)[1] = Boundary
                    THEN Count(transitions, Boundary, Boundary) = 0
                    ELSE /\ Count(transitions, CarryBefore(i), Toks(i)[1]) >= 1
                         /\ Count(transitions, CarryBefore(i), Toks(i)[1])
                               = Observed(CarryBefore(i), Toks(i)[1])

\* a line ending in a Word, then a blank or unreadable line, then a line that
\* yields tokens: the Word of the first is counted before the first token of
\* the third
C4_Witness ==
    /\ boundary_config = SentenceEndings
    /\ \E i \in 1..Len(lines) :
          /\ i + 2 <= Len(lines)
          /\ Yields(i) /\ ~Yields(i + 1) /\ Yields(i + 2)
          /\ IsWord(Toks(i)[Len(Toks(i))])
          /\ passed[i + 2][1] = Toks(i)[Len(Toks(i))]
          /\ Count(transitions, Toks(i)[Len(Toks(i))], Toks(i + 2)[1]) >= 1

\* the chars of a line that are not whitespace, in order
NonWhitespace(line) == SelectSeq(line, LAMBDA c : c \notin Whitespace)

\* C5: under LineEndings the vector counted for a line is Boundary, the
\* line's tokens, Boundary; the tokens are all Words that spell the line's
\* text, so Boundary is only first and last and nothing is carried from one
\* line to the next.
C5_LineWrapped ==
    boundary_config = LineEndings =>
        /\ last_token = Boundary
        /\ \A i \in 1..Len(lines) :
              /\ passed[i] = <<Boundary>> \o Toks(i) \o <<Boundary>>
              /\ \A k \in 2..(Len(passed[i]) - 1) : IsWord(passed[i][k])
              /\ Flatten([k \in 1..(Len(passed[i]) - 2) |-> passed[i][k + 1].value])
                    = (IF lines[i].ok THEN NonWhitespace(lines[i].line) ELSE <<>>)

\* a line ending in '.' was counted with '.' as a Word before the closing
\* Boundary, after another line with tokens
C5_Witness ==
    /\ boundary_config = LineEndings
    /\ \E i \in 2..Len(lines) :
          /\ Yields(i - 1)
          /\ Len(passed[i]) >= 4
          /\ passed[i][Len(passed[i]) - 1] = Word(<<".">>)
          /\ Count(transitions, Word(<<".">>), Boundary) >= 1

(***************************************************************************)
(* MarkovGenerator: new, then train, then calls of next                    *)
(***************************************************************************)
StartDeadend == <<"s", "t", "a", "r", "t", " ", "d", "e", "a", "d", "e", "n", "d">>
LonelyLonely == <<"l", "o", "n", "e", "l", "y", " ", "l", "o", "n", "e", "l", "y">>
GenCorpus == {<<>>, <<"a">>, <<"a", " ", "b">>, <<"a", ".">>, StartDeadend, LonelyLonely}
GenLineResults == {Ok(l) : l \in GenCorpus} \cup {Err}

\* generator.rs:35-41, MarkovGenerator::new
GenInit ==
    /\ boundary_config \in BoundaryConfigs
    /\ token_transitions = EmptyMap
    /\ gen_last_token = None
    /\ trained = <<>>
    /\ results = <<>>
    /\ TokIdle /\ TrainIdle /\ BabIdle

\* generator.rs:43-45, MarkovGenerator::train on an input of one line, under
\* the BoundaryConfigs value of the run; the table is trained in full before
\* the first call of next
GenTrain(res) ==
    /\ results = <<>>
    /\ Len(trained) < MaxTrainCalls
    /\ token_transitions' = train_with_stream(<<res>>, token_transitions, boundary_config)
    /\ trained' = Append(trained, res)
    /\ UNCHANGED <<boundary_config, gen_last_token, results, tokVars, trainVars, babVars>>

\* next that keeps last_token when nothing was picked
GenNextKeepsLast ==
    /\ Len(results) < MaxCalls
    /\ \E t \in next(token_transitions, gen_last_token) :
          /\ gen_last_token' = IF t = None THEN gen_last_token ELSE t
          /\ results' = Append(results, t)
    /\ UNCHANGED <<boundary_config, token_transitions, trained, tokVars, trainVars, babVars>>

\* generator.rs:88-105, MarkovGenerator::next
GenNext ==
    /\ Len(results) < MaxCalls
    /\ \E t \in next(token_transitions, gen_last_token) :
          /\ gen_last_token' = t
          /\ results' = Append(results, t)
    /\ UNCHANGED <<boundary_config, token_transitions, trained, tokVars, trainVars, babVars>>

GenerateNext ==
    \/ \E res \in GenLineResults : GenTrain(res)
    \/ GenNext

SpecGen == GenInit /\ [][GenerateNext]_vars

\* the tokens a caller collects: what next returned before it first returned None
RECURSIVE TakeWhileSome(_)
TakeWhileSome(rs) ==
    IF rs = <<>> \/ Head(rs) = None THEN <<>> ELSE <<Head(rs)>> \o TakeWhileSome(Tail(rs))

Emitted == TakeWhileSome(results)
Ended == \E i \in 1..Len(results) : results[i] = None

\* C1: every call of next returns the text of a Word or None, never Boundary.
C1_NeverReturnsBoundary ==
    \A i \in 1..Len(results) : results[i] = None \/ IsWord(results[i])

\* C6: trained on the single line "start deadend", a run ends after at most 2
\* emitted tokens: "start" then "deadend" if 2, "deadend" if 1.
C6_DeadEndTermination ==
    trained = <<Ok(StartDeadend)>> =>
        /\ Len(Emitted) <= 2
        /\ Len(Emitted) = 2 => Emitted = <<Word(SubSeq(StartDeadend, 1, 5)), Word(SubSeq(StartDeadend, 7, 13))>>
        /\ (Ended /\ Len(Emitted) = 1) => Emitted = <<Word(SubSeq(StartDeadend, 7, 13))>>

\* C7: trained on the single line "lonely lonely", every call of next returns
\* "lonely": no run stops early or emits anything else.
C7_SelfLoop ==
    trained = <<Ok(LonelyLonely)>> =>
        \A i \in 1..Len(results) : results[i] = Word(SubSeq(LonelyLonely, 1, 6))

\* C8: on an empty table every call of next returns None and leaves the
\* generator without a last token.
C8_EmptyTable ==
    token_transitions = EmptyMap =>
        /\ gen_last_token = None
        /\ \A i \in 1..Len(results) : results[i] = None

\* next was called twice on a table that is still empty after training
C8_Witness ==
    /\ token_transitions = EmptyMap
    /\ Len(results) >= 2
    /\ Len(trained) >= 1

(***************************************************************************)
(* babble.rs: generate_text(probability, limit), one loop iteration per    *)
(* step                                                                    *)
(***************************************************************************)
\* maps that no training builds: a source with no destination, and a source
\* whose only destination has weight 0
MalformedMaps ==
    { (Word(<<"a">>) :> EmptyMap),
      (Word(<<"a">>) :> (Word(<<"b">>) :> 0)) }

ProbabilityMaps ==
    {train_with_stream(<<res>>, EmptyMap, c) : res \in GenLineResults, c \in BoundaryConfigs}
    \cup MalformedMaps

BabInit ==
    /\ boundary_config = LineEndings
    /\ probability \in ProbabilityMaps
    /\ limit \in 0..MaxLimit
    /\ output = <<>>
    /\ bab_last_token = None
    /\ bab_i = 0
    /\ bab_pc = "start"
    /\ TokIdle /\ TrainIdle /\ GenIdle

\* babble.rs:27-37: choose the first token and push it
BabStart ==
    /\ bab_pc = "start"
    /\ \E t \in pick_first_token(probability) :
          IF t = None
          THEN /\ bab_pc' = "return"
               /\ UNCHANGED <<output, bab_last_token>>
          ELSE /\ bab_last_token' = t
               /\ output' = Append(output, t)
               /\ bab_pc' = IF limit = 0 THEN "return" ELSE "loop"
    /\ UNCHANGED <<boundary_config, probability, limit, bab_i, tokVars, trainVars, genVars>>

\* babble.rs:41-44: last_token has no entry, break
BabBreak ==
    /\ bab_pc = "loop"
    /\ bab_last_token \notin DOMAIN probability
    /\ bab_pc' = "return"
    /\ UNCHANGED <<boundary_config, probability, limit, output, bab_last_token, bab_i,
                   tokVars, trainVars, genVars>>

\* babble.rs:50: WeightedIndex::new(probs).unwrap() panics
BabPanic ==
    /\ bab_pc = "loop"
    /\ bab_last_token \in DOMAIN probability
    /\ ~WeightedIndexOk(probability[bab_last_token])
    /\ bab_pc' = "panic"
    /\ UNCHANGED <<boundary_config, probability, limit, output, bab_last_token, bab_i,
                   tokVars, trainVars, genVars>>

\* babble.rs:40-56: one iteration of `for _ in 0..limit` that pushes a token
BabIterate ==
    /\ bab_pc = "loop"
    /\ bab_last_token \in DOMAIN probability
    /\ WeightedIndexOk(probability[bab_last_token])
    /\ \E t \in Sample(probability[bab_last_token]) :
          /\ output' = Append(output, t)
          /\ bab_last_token' = t
    /\ bab_i' = bab_i + 1
    /\ bab_pc' = IF bab_i + 1 = limit THEN "return" ELSE "loop"
    /\ UNCHANGED <<boundary_config, probability, limit, tokVars, trainVars, genVars>>

BabNext ==
    \/ BabStart
    \/ BabBreak
    \/ BabPanic
    \/ BabIterate

SpecBab == BabInit /\ [][BabNext]_vars

\* C9: generate_text(probability, limit) returns at most limit tokens.
C9_AtMostLimit ==
    bab_pc = "return" => Len(output) <= limit

\* what the code keeps instead: at most limit + 1 tokens
C9_AtMostLimitPlusOne ==
    Len(output) <= limit + 1

(***************************************************************************)
(* Properties of tokenize and of its passes                                *)
(***************************************************************************)
Returned == tk_pc = "return"

\* the tokens of the whitespace split of the line being tokenized
SplitTokens == split_whitespace(tk_line)

\* C11: no Word that tokenize holds or returns has empty text, and a line made
\* of one punctuation char yields only that one-char Word, or only Boundary for
\* '.', '!', '?' under SentenceEndings.
C11_NoEmptyWord ==
    /\ \A i \in 1..Len(tk_tokens) : IsWord(tk_tokens[i]) => tk_tokens[i].value # <<>>
    /\ \A c \in PUNCTUATION_ENDINGS \cup PUNCTUATION_BEGININGS :
          (Returned /\ SplitTokens = <<Word(<<c>>)>>) =>
              tk_tokens = IF boundary_config = SentenceEndings /\ c \in SENTENCE_ENDINGS
                          THEN <<Boundary>>
                          ELSE <<Word(<<c>>)>>

\* tokenize returned for a line that is one quote char, which both ending and
\* begining passes match
C11_Witness ==
    /\ Returned
    /\ SplitTokens = <<Word(<<"\"">>)>>
    /\ tk_tokens = <<Word(<<"\"">>)>>

\* the three passes of tokenize on a token list
Passes(v, config) ==
    split_out_punctuation_beginings(
        split_out_punctuation_endings(
            IF config = SentenceEndings THEN split_out_sentence_boundaries(v) ELSE v))

\* a token of at least two chars that starts with an opening char and ends
\* with a closing char that the sentence pass does not take
Enclosed(t) ==
    /\ IsWord(t)
    /\ Len(t.value) >= 2
    /\ Head(t.value) \in PUNCTUATION_BEGININGS
    /\ LastChar(t.value) \in PUNCTUATION_ENDINGS
    /\ ~(boundary_config = SentenceEndings /\ LastChar(t.value) \in SENTENCE_ENDINGS)

\* opening Word, inner text (when there is any), closing Word
Composed(t) ==
    <<Word(<<Head(t.value)>>)>>
    \o (IF Len(t.value) > 2 THEN <<Word(SubSeq(t.value, 2, Len(t.value) - 1))>> ELSE <<>>)
    \o <<Word(<<LastChar(t.value)>>)>>

\* C12: for a token that starts with an opening char and ends with a closing
\* char, tokenize returns the opening Word, the inner text and the closing
\* Word in this order, between the tokens of what precedes and of what follows.
C12_Compose ==
    Returned =>
        \A i \in 1..Len(SplitTokens) : Enclosed(SplitTokens[i]) =>
            tk_tokens = Passes(SubSeq(SplitTokens, 1, i - 1), boundary_config)
                        \o Composed(SplitTokens[i])
                        \o Passes(SubSeq(SplitTokens, i + 1, Len(SplitTokens)), boundary_config)

\* the same statement for the lines whose chars all take one byte
C12_ComposeAscii ==
    (\A i \in 1..Len(tk_line) : tk_line[i] \notin TwoByteChars) => C12_Compose

\* the left-to-right build of a fresh list: each matching token replaced, every
\* other token copied
FreshSentence(v) ==
    Flatten([i \in 1..Len(v) |-> IF SentenceMatches(v[i]) THEN SentenceNewTokens(v[i]) ELSE <<v[i]>>])

FreshEndings(v) ==
    Flatten([i \in 1..Len(v) |-> IF EndingMatches(v[i]) THEN EndingNewTokens(v[i]) ELSE <<v[i]>>])

FreshBeginings(v) ==
    Flatten([i \in 1..Len(v) |-> IF BeginingMatches(v[i]) THEN BeginingNewTokens(v[i]) ELSE <<v[i]>>])

\* C13: each pass, applying its collected (index, replacement) pairs by remove
\* and insert in reverse index order, leaves exactly the list that the
\* left-to-right build of a fresh list gives.
C13_PassesAreFreshBuilds ==
    /\ AfterSentenceBoundaries => tk_tokens = FreshSentence(tk_before)
    /\ (tk_pc = "split_out_punctuation_beginings") => tk_tokens = FreshEndings(tk_before)
    /\ Returned => tk_tokens = FreshBeginings(tk_before)

\* the ending pass replaced two tokens, the first of them by two tokens
C13_Witness ==
    /\ tk_pc = "split_out_punctuation_beginings"
    /\ Len(EndingInsertions(tk_before)) >= 2
    /\ Len(EndingInsertions(tk_before)[1][2]) = 2
    /\ Len(tk_tokens) > Len(tk_before)

(***************************************************************************)
(* Properties of the generators                                            *)
(***************************************************************************)
\* C14: the first token next returns is a known source key, and a token
\* returned right after token a has a stored count >= 1 in the table of a;
\* from a, exactly the destinations with a stored count can be drawn.
C14_OutputFollowsTable ==
    /\ \A i \in 1..Len(results) : results[i] # None =>
          IF i = 1 \/ results[i - 1] = None
          THEN results[i] \in DOMAIN token_transitions
          ELSE Count(token_transitions, results[i - 1], results[i]) >= 1
    /\ (gen_last_token # None /\ gen_last_token \in DOMAIN token_transitions) =>
          next(token_transitions, gen_last_token)
             = {d \in DOMAIN token_transitions[gen_last_token] :
                    token_transitions[gen_last_token][d] >= 1}

\* three tokens in a row were returned from a table where the second has two
\* destinations
C14_Witness ==
    /\ Len(results) >= 3
    /\ results[1] # None /\ results[2] # None /\ results[3] # None
    /\ results[2] \in DOMAIN token_transitions
    /\ Cardinality(DOMAIN token_transitions[results[2]]) >= 2

\* C15: a destination set that is empty or has only zero weights ends the
\* generation like a dead end: generate_text returns and does not crash.
C15_NoCrash ==
    bab_pc # "panic"

\* C17: after next returned None on a non-empty table the generator has no
\* last token, and the call after it returns a known source key.
C17_Restart ==
    \A i \in 1..Len(results) :
        (results[i] = None /\ token_transitions # EmptyMap) =>
            IF i < Len(results)
            THEN results[i + 1] # None /\ results[i + 1] \in DOMAIN token_transitions
            ELSE gen_last_token = None

\* a token was returned, then None at a dead end, then a token again
C17_Witness ==
    \E i \in 2..(Len(results) - 1) :
        /\ results[i - 1] # None
        /\ results[i - 1] \notin DOMAIN token_transitions
        /\ results[i] = None
        /\ results[i + 1] \in DOMAIN token_transitions

(***************************************************************************)
(* Properties of train_with_stream, continued                              *)
(***************************************************************************)
\* the lines read, each unreadable line replaced by an empty line
AsEmptyLines(rs) == [i \in 1..Len(rs) |-> IF rs[i].ok THEN rs[i] ELSE Ok(<<>>)]

\* C16: an unreadable line adds no transition and leaves the carried token as
\* it was: the table is the one that training on the same lines, with each
\* unreadable line replaced by an empty line, gives.
C16_ErrIsEmptyLine ==
    /\ transitions = train_with_stream(AsEmptyLines(lines), EmptyMap, boundary_config)
    /\ last_token = IF boundary_config = SentenceEndings
                    THEN CarryBefore(Len(lines) + 1)
                    ELSE Boundary
    /\ \A i \in 1..Len(lines) : ~lines[i].ok =>
          \A a \in SeenTokens : \A b \in SeenTokens :
              (a # Boundary \/ b # Boundary) => PairCount(passed[i], a, b) = 0

\* under SentenceEndings a line ending in a Word, an unreadable line and a
\* line with tokens were read, and the Word is counted before the first token
\* of the last line
C16_Witness ==
    /\ boundary_config = SentenceEndings
    /\ Len(lines) = 3
    /\ Yields(1) /\ ~lines[2].ok /\ Yields(3)
    /\ IsWord(Toks(1)[Len(Toks(1))])
    /\ Count(transitions, Toks(1)[Len(Toks(1))], Toks(3)[1]) >= 1

\* the stored counts into and out of a token
InSum(t) == Sum([a \in DOMAIN transitions |-> Count(transitions, a, t)], DOMAIN transitions)
OutSum(t) == IF t \in DOMAIN transitions THEN Sum(transitions[t], DOMAIN transitions[t]) ELSE 0

\* C18: under LineEndings the stored counts into a token sum to the stored
\* counts out of it, for every token, so every destination is a known source
\* key and no token is a dead end.
C18_InEqualsOut ==
    boundary_config = LineEndings =>
        /\ \A t \in SeenTokens : InSum(t) = OutSum(t)
        /\ \A a \in DOMAIN transitions : \A b \in DOMAIN transitions[a] : b \in DOMAIN transitions

\* two lines with tokens were counted: Boundary and a Word each have two
\* transitions in and two out
C18_Witness ==
    /\ boundary_config = LineEndings
    /\ InSum(Boundary) >= 2
    /\ \E t \in SeenTokens : IsWord(t) /\ InSum(t) >= 2 /\ OutSum(t) >= 2

====
